---- MODULE Spec2Model ----
(***************************************************************************)
(* Model of the host routine lanczos() of src/lanczos.cu: the Lanczos      *)
(* three-term recurrence on the GPU, the per-round call of the tridiagonal *)
(* solver tqli, the extraction of the num_Eig smallest eigenvalues, the    *)
(* convergence test of the outer loop and the growth of the coefficient    *)
(* buffers.                                                                *)
(*                                                                         *)
(* Numbers.  The doubles of the spectrum (d_diag, d_offdia, d_ordered,     *)
(* gs_Energy, eigtemp, conv_req) are fixed-point integers counting units   *)
(* of 1/Scale, so that the literal 1. of line 320 is Scale.  Coefficients  *)
(* (d_a, d_b, dottemp, normtemp) are integers; a quotient is kept as the   *)
(* pair <<numerator, denominator>>, which makes a division by zero         *)
(* visible.  A vector of length dim is named by the index j of the Krylov  *)
(* vector it carries (0 is the all-ones starting vector); y is the list of  *)
(* the vectors added into it, each scaled by the gamma of its step;        *)
(* v1_scale is the factor by which the residual of a step was multiplied   *)
(* when it became v1.                                                      *)
(*                                                                         *)
(* The collaborators (cusparseZcsrmv, cublasZdotc, cublasZaxpy,            *)
(* cublasDznrm2, cudaMalloc) are external: the value and the status each   *)
(* call returns are drawn from small sets: the values follow from the      *)
(* operator, the status is free, and a call that fails leaves an undefined *)
(* result.  tqli lives in a file that is not part of src/ and follows the  *)
(* tridiagonal solver's contract.                                          *)
(***************************************************************************)
EXTENDS Integers, Sequences, FiniteSets, TLC

\* ------------------------------------------------------------------ bounds
MaxCap == 3
MaxEig == 2
MaxRounds == 3
MaxFaults == 1
MaxDim == 2

\* ------------------------------------------------- value sets of the inputs
Scale == 2
ConvVals == {1, 2}
DotVals == {0, 1}
NormVals == {0, 4}
EigVals == {1, 3}

\* The operator H and the starting vector fix what the collaborators return:
\* an operator is named by the values <v1, H*v1> and ||v2|| take in the even
\* and in the odd steps.  H_fits tells whether the operator has the dimension
\* dim of the vectors, that is whether every index in d_H_rows and d_H_cols
\* is below dim.
Operators == [ae : DotVals, ao : DotVals, ne : NormVals, no : NormVals]

ZeroVec == 0 - 1
UninitVec == 0 - 2
Uninit == 0 - 9

\* ----------------------------------------------------------------- helpers
Abs(x) == IF x < 0 THEN 0 - x ELSE x

\* sqrt() of <cmath> on the perfect squares the norm collaborator returns
ISqrt(n) == CHOOSE r \in 0..n : r * r = n

\* cuCreal() followed by the store into a double of the spectrum
ToFix(x) == Scale * x

BetaVals == {ISqrt(n) : n \in NormVals}
FixVals == EigVals \cup {0} \cup {ToFix(x) : x \in DotVals}

\* what a load past the end of a vector of doubles can yield
GarbageVals == {0, 3}

\* thrust::device_vector<T> v(n) / v.resize(n) on an empty vector:
\* n value-initialised elements
NewVec(n, fill) == [i \in 0..(n - 1) |-> fill]

\* v[i] = x.  thrust's operator[] does no bounds check: a store past the end
\* does not land in the vector.
Store(buf, i, x) == IF i \in DOMAIN buf THEN [buf EXCEPT ![i] = x] ELSE buf

\* the values a load v[i] can yield: the element, or anything when i is past
\* the end of the vector
Load(buf, i, any) == IF i \in DOMAIN buf THEN {buf[i]} ELSE any

\* the buffers touched outside their capacity by an access at index i
Oob(buf, name, i) == IF i \in DOMAIN buf THEN {} ELSE {name}

\* v.resize(n) of thrust: the old elements keep their index, the new ones are
\* value-initialised
Resize(buf, n, fill) == [i \in 0..(n - 1) |-> IF i \in DOMAIN buf THEN buf[i] ELSE fill]

\* thrust::sort(v.begin(), v.end()) over the whole vector, ascending
SortAsc(buf) ==
  [i \in DOMAIN buf |->
     CHOOSE x \in {buf[j] : j \in DOMAIN buf} :
        /\ Cardinality({j \in DOMAIN buf : buf[j] < x}) <= i
        /\ i < Cardinality({j \in DOMAIN buf : buf[j] <= x})]

IsSorted(buf) == \A i \in DOMAIN buf : \A j \in DOMAIN buf : i <= j => buf[i] <= buf[j]

\* the loop condition of line 342: fabs(gs_Energy - eigtemp) > conv_req
ContinueLoop_ge(gs, et, cr) == Abs(gs - et) >= cr
ContinueLoop(gs, et, cr) == Abs(gs - et) > cr

\* line 440: the element of d_ordered that d_ordered_ptr names after a round
OrderedPtrAfterRound(k) == k - 1

\* line 447: the round in which the buffers are resized
GrowNow(it, cap) == it = cap - 1

\* lines 449-456: the capacity after the resize
GrownCap(cap) == 2 * cap

\* line 395: the element of d_b that round iter stores its beta in
BetaSlot_iter(it) == it
BetaSlot(it) == it + 1

\* kernel zero(double* a, int m), lines 28-34: the first m doubles
ZeroKernel(a, m) == [i \in DOMAIN a |-> IF i < m THEN 0 ELSE a[i]]

\* kernel unitdiag(double* a, int m), lines 37-44: a[i + m*i] = 1 for i < m
UnitDiag(a, m) == [j \in DOMAIN a |-> IF \E i \in 0..(m - 1) : j = i + m * i THEN Scale ELSE a[j]]

\* tqli(d, e, n, z): the n eigenvalues overwrite d[0..n-1], in the order the
\* deflation produces them; the rest of d is not touched
TqliOut(d, n, eigs) == [j \in DOMAIN d |-> IF j < n THEN eigs[j] ELSE d[j]]

\* the return value of tqli when the QL iteration of some index ran into its
\* cap; 0 otherwise
TqliNoConvergence == 1

\* thrust::copy(d_diag.begin(), d_diag.begin() + k, d_ordered.begin()): the
\* choices for element j of the destination
CopyChoices(src, j) == Load(src, j, GarbageVals)

VARIABLES
  pc,
  H_op, H_fits, max_Iter, num_Eig, conv_req,
  iter,
  d_a, d_b, d_lanczvec,
  v0, v1, v2, y, v1_scale,
  dottemp, normtemp, axpytemp, cuDouble_temp, gamma, w,
  d_ordered, d_ordered_ptr, gs_Energy, eigtemp, returned,
  d_diag, d_offdia, h_diag, h_offdia, hostPtrsLive,
  h_H_eigen,
  h_ordered, h_lanczvec,
  nFaults, allocFailed, collabFailed, ranAfterAllocFail, ranAfterCollabFail,
  oobWrites, oobReads, prevOrdered, tq_out, alphaIdx, betaIdx,
  vd_w, vd_x, vd_alpha, vd_y, vd_beta, vd_z, vd_n

coeffVars == <<d_a, d_b, d_lanczvec>>
vecVars == <<v0, v1, v2, y, v1_scale>>
tempVars == <<dottemp, normtemp, axpytemp, cuDouble_temp, gamma, w>>
specVars == <<d_ordered, d_ordered_ptr, gs_Energy, eigtemp, returned>>
triVars == <<d_diag, d_offdia, h_diag, h_offdia, hostPtrsLive>>
outVars == <<h_ordered, h_lanczvec>>
inVars == <<H_op, H_fits, max_Iter, num_Eig, conv_req>>
faultVars == <<nFaults, allocFailed, collabFailed, ranAfterAllocFail, ranAfterCollabFail>>
ghostVars == <<oobWrites, oobReads, prevOrdered, tq_out>>

\* the indices at which a computed alpha (d_a[i] = dottemp) and a computed
\* beta (d_b[i] = sqrt(normtemp)) have been stored so far
idxVars == <<alphaIdx, betaIdx>>

\* the arguments of a launch of the kernel vecdiff
kernVars == <<vd_w, vd_x, vd_alpha, vd_y, vd_beta, vd_z, vd_n>>

vars == <<pc, inVars, iter, coeffVars, vecVars, tempVars, specVars, triVars,
          h_H_eigen, outVars, faultVars, ghostVars, idxVars, kernVars>>

\* what cublasZdotc returns in step i: <v1, H*v1> of the operator, or
\* anything when the product or the dot product failed
DotResult(f, i) ==
  IF f = "collab" THEN DotVals ELSE {IF i % 2 = 0 THEN H_op.ae ELSE H_op.ao}

\* what cublasDznrm2 returns in step i
NormResult(f, i) ==
  IF f = "collab" THEN NormVals ELSE {IF i % 2 = 0 THEN H_op.ne ELSE H_op.no}

\* the outcomes of the calls of one step: all succeed, a cudaMalloc fails, or
\* a cuSPARSE/cuBLAS call returns a failure status
Outcomes(kinds) == IF nFaults < MaxFaults THEN {"none"} \cup kinds ELSE {"none"}

\* the status is printed (or dropped) and the run goes on
Record(f) ==
  /\ nFaults' = nFaults + (IF f = "none" THEN 0 ELSE 1)
  /\ allocFailed' = (allocFailed \/ f = "alloc")
  /\ collabFailed' = (collabFailed \/ f = "collab")

\* a Lanczos step runs: remember whether an allocation or a collaborator had
\* already failed by then
StepRuns ==
  /\ ranAfterAllocFail' = (ranAfterAllocFail \/ allocFailed)
  /\ ranAfterCollabFail' = (ranAfterCollabFail \/ collabFailed)

\* the locals of lanczos before any of them is set
Fresh ==
  /\ iter = 0
  /\ d_a = <<>> /\ d_b = <<>> /\ d_lanczvec = <<>>
  /\ v0 = UninitVec /\ v1 = UninitVec /\ v2 = UninitVec /\ y = <<>>
  /\ v1_scale = <<1, 1>>
  /\ dottemp = 0 /\ normtemp = 0 /\ axpytemp = <<0, 1>> /\ gamma = <<0, 1>>
  /\ cuDouble_temp = <<0, 1>>
  /\ w = [hv |-> UninitVec, c1 |-> <<0, 1>>, c0 |-> <<0, 1>>]
  /\ d_ordered = <<>> /\ d_ordered_ptr = 0 /\ gs_Energy = 0 /\ eigtemp = 0
  /\ returned = 0
  /\ d_diag = <<>> /\ d_offdia = <<>> /\ h_diag = <<>> /\ h_offdia = <<>>
  /\ hostPtrsLive = TRUE
  /\ h_H_eigen = <<>>
  /\ h_ordered = <<>> /\ h_lanczvec = <<>>
  /\ nFaults = 0 /\ allocFailed = FALSE /\ collabFailed = FALSE
  /\ ranAfterAllocFail = FALSE /\ ranAfterCollabFail = FALSE
  /\ oobWrites = {} /\ oobReads = {} /\ prevOrdered = <<>> /\ tq_out = <<>>
  /\ alphaIdx = {} /\ betaIdx = {}

\* no kernel launch of the older variant is in flight
NoLaunch ==
  /\ vd_w = <<>> /\ vd_x = <<>> /\ vd_y = <<>> /\ vd_z = <<>>
  /\ vd_alpha = <<0, 0>> /\ vd_beta = <<0, 0>> /\ vd_n = 0

\* the call lanczos(num_Elem, d_H_vals, d_H_rows, d_H_cols, dim, max_Iter,
\* num_Eig, conv_req) with nothing allocated yet
Init ==
  /\ pc = "start"
  /\ H_op \in Operators
  /\ H_fits \in BOOLEAN
  /\ max_Iter \in 1..MaxCap
  /\ num_Eig \in 1..MaxEig
  /\ conv_req \in ConvVals
  /\ Fresh
  /\ NoLaunch

\* lines 62-110: library handles, d_H_rowptrs, COO to CSR.  A failed
\* cudaMalloc of d_H_rowptrs is printed and the run goes on.
Setup ==
  /\ pc = "start"
  /\ \E f \in Outcomes({"alloc"}) : Record(f)
  /\ pc' = "alloc_coeff"
  /\ UNCHANGED <<inVars, iter, coeffVars, vecVars, tempVars, specVars, triVars,
                 h_H_eigen, outVars, ranAfterAllocFail, ranAfterCollabFail,
                 ghostVars>>
  /\ UNCHANGED kernVars
  /\ UNCHANGED idxVars

\* lines 112-144: d_a.resize(max_Iter), d_b.resize(max_Iter); a failure is
\* caught and ends the process with exit(-1)
AllocCoeff ==
  /\ pc = "alloc_coeff"
  /\ \E f \in Outcomes({"alloc"}) :
       /\ Record(f)
       /\ IF f = "none"
          THEN /\ d_a' = NewVec(max_Iter, 0)
               /\ d_b' = NewVec(max_Iter, 0)
               /\ pc' = "alloc_basis"
          ELSE /\ pc' = "exit"
               /\ UNCHANGED <<d_a, d_b>>
  /\ UNCHANGED <<inVars, iter, d_lanczvec, vecVars, tempVars, specVars, triVars,
                 h_H_eigen, outVars, ranAfterAllocFail, ranAfterCollabFail,
                 ghostVars>>
  /\ UNCHANGED kernVars
  /\ UNCHANGED idxVars

\* lines 146-191: d_lanczvec.resize(dim*max_Iter) (a failure ends the
\* process), cudaMalloc of v0, v1, v2 (status never looked at), v0 filled
\* with ones
AllocBasis ==
  /\ pc = "alloc_basis"
  /\ \E f \in Outcomes({"alloc", "alloc_fatal"}) :
       /\ Record(IF f = "alloc_fatal" THEN "alloc" ELSE f)
       /\ IF f = "alloc_fatal"
          THEN /\ pc' = "exit"
               /\ UNCHANGED <<d_lanczvec, v0>>
          ELSE /\ d_lanczvec' = NewVec(max_Iter, ZeroVec)
               /\ v0' = 0
               /\ pc' = "seed_alpha"
  /\ UNCHANGED <<inVars, iter, d_a, d_b, v1, v2, y, v1_scale, tempVars, specVars, triVars,
                 h_H_eigen, outVars, ranAfterAllocFail, ranAfterCollabFail,
                 ghostVars>>
  /\ UNCHANGED kernVars
  /\ UNCHANGED idxVars

\* lines 193-245: v1 = H*v0, d_a[0] = <v1, v0>, d_b[0] = 0.  A failure status
\* of cusparseZcsrmv or cublasZdotc is printed and the run goes on.
SeedAlpha ==
  /\ pc = "seed_alpha"
  /\ v1' = 1
  /\ w' = [hv |-> v0, c1 |-> <<0, 1>>, c0 |-> <<0, 1>>]
  /\ \E f \in Outcomes({"collab"}) :
       /\ Record(f)
       /\ \E dt \in DotResult(f, 0) :
            /\ dottemp' = dt
            /\ d_a' = Store(d_a, 0, dt)
  /\ d_b' = Store(d_b, 0, 0)
  /\ StepRuns
  /\ pc' = "seed_beta"
  /\ UNCHANGED <<inVars, iter, d_lanczvec, v0, v2, y, v1_scale, normtemp, axpytemp, gamma,
                 cuDouble_temp, specVars, triVars, h_H_eigen, outVars, ghostVars>>
  /\ UNCHANGED kernVars
  /\ alphaIdx' = alphaIdx \cup {0}
  /\ UNCHANGED betaIdx

\* lines 247-311: y, double_temp, cuDouble_temp allocated (a failure is
\* printed), v1 = v1 - d_a[0]*v0, d_b[1] = sqrt(norm of v1),
\* gamma = 1/d_b[1], y = y + gamma*v1; v1 itself stays as it is
SeedBeta ==
  /\ pc = "seed_beta"
  /\ axpytemp' = <<0 - d_a[0], 1>>
  /\ cuDouble_temp' = <<0 - d_a[0], 1>>
  /\ w' = [w EXCEPT !.c0 = <<0 - d_a[0], 1>>]
  /\ \E f \in Outcomes({"alloc", "collab"}) :
       /\ Record(f)
       /\ ranAfterAllocFail' = (ranAfterAllocFail \/ allocFailed \/ f = "alloc")
       /\ \E nt \in NormResult(f, 0) :
            /\ normtemp' = nt
            /\ d_b' = Store(d_b, 1, ISqrt(nt))
            /\ \E b \in Load(d_b', 1, BetaVals) :
                 /\ gamma' = <<1, b>>
                 /\ y' = <<v1>>
  /\ oobWrites' = oobWrites \cup Oob(d_b, "d_b", 1)
  /\ oobReads' = oobReads \cup Oob(d_b, "d_b", 1)
  /\ ranAfterCollabFail' = (ranAfterCollabFail \/ collabFailed)
  /\ pc' = "alloc_spectrum"
  /\ v1_scale' = <<1, 1>>
  /\ UNCHANGED <<inVars, iter, d_a, d_lanczvec, v0, v1, v2, dottemp,
                 specVars, triVars, h_H_eigen, outVars, prevOrdered, tq_out>>
  /\ UNCHANGED kernVars
  /\ betaIdx' = betaIdx \cup {1}
  /\ UNCHANGED alphaIdx

\* lines 316-340: d_ordered(num_Eig) filled with 0, gs_Energy = 1, iter = 0,
\* d_diag, d_offdia, h_diag, h_offdia of max_Iter zeros, the raw pointers
\* h_diag_ptr and h_offdia_ptr taken, eigtemp = 0
AllocSpectrum ==
  /\ pc = "alloc_spectrum"
  /\ d_ordered' = NewVec(num_Eig, 0)
  /\ d_ordered_ptr' = 0
  /\ gs_Energy' = Scale
  /\ eigtemp' = 0
  /\ iter' = 0
  /\ d_diag' = NewVec(max_Iter, 0)
  /\ d_offdia' = NewVec(max_Iter, 0)
  /\ h_diag' = NewVec(max_Iter, 0)
  /\ h_offdia' = NewVec(max_Iter, 0)
  /\ hostPtrsLive' = TRUE
  /\ prevOrdered' = NewVec(num_Eig, 0)
  /\ pc' = "test"
  /\ UNCHANGED <<inVars, coeffVars, vecVars, tempVars, returned, h_H_eigen,
                 outVars, faultVars, oobWrites, oobReads, tq_out>>
  /\ UNCHANGED kernVars
  /\ UNCHANGED idxVars

\* line 342: while( fabs(gs_Energy - eigtemp) > conv_req )
LoopTest ==
  /\ pc = "test"
  /\ ContinueLoop(gs_Energy, eigtemp, conv_req) => iter < MaxRounds
  /\ pc' = IF ContinueLoop(gs_Energy, eigtemp, conv_req) THEN "matvec" ELSE "finish"
  /\ UNCHANGED <<inVars, iter, coeffVars, vecVars, tempVars, specVars, triVars,
                 h_H_eigen, outVars, faultVars, ghostVars>>
  /\ UNCHANGED kernVars
  /\ UNCHANGED idxVars

\* lines 344-368: iter++, eigtemp read through d_ordered_ptr, v2 = H*v1,
\* d_a[iter] = <v1, v2>
RoundMatvec ==
  /\ pc = "matvec"
  /\ iter' = iter + 1
  /\ eigtemp' = d_ordered[d_ordered_ptr]
  /\ prevOrdered' = d_ordered
  /\ v2' = iter + 2
  /\ w' = [hv |-> v1, c1 |-> <<0, 1>>, c0 |-> <<0, 1>>]
  /\ \E f \in Outcomes({"collab"}) :
       /\ Record(f)
       /\ \E dt \in DotResult(f, iter + 1) :
            /\ dottemp' = dt
            /\ d_a' = Store(d_a, iter + 1, dt)
  /\ oobWrites' = oobWrites \cup Oob(d_a, "d_a", iter + 1)
  /\ StepRuns
  /\ pc' = "ortho"
  /\ UNCHANGED <<inVars, d_b, d_lanczvec, v0, v1, y, v1_scale, normtemp, axpytemp,
                 cuDouble_temp, gamma, d_ordered, d_ordered_ptr, gs_Energy,
                 returned, triVars, h_H_eigen, outVars, oobReads, tq_out>>
  /\ UNCHANGED kernVars
  /\ alphaIdx' = alphaIdx \cup {iter + 1}
  /\ UNCHANGED betaIdx

\* lines 370-387: temp = v1, temp = temp + (d_b[iter]/d_a[iter])*v0,
\* v2 = v2 + d_a[iter]*temp
RoundOrtho ==
  /\ pc = "ortho"
  /\ \E a \in Load(d_a, iter, DotVals) : \E b \in Load(d_b, iter, BetaVals) :
       /\ cuDouble_temp' = <<b, a>>
       /\ axpytemp' = <<a, 1>>
       /\ w' = [w EXCEPT !.c1 = <<a, 1>>, !.c0 = <<a * b, a>>]
  /\ oobReads' = oobReads \cup Oob(d_a, "d_a", iter) \cup Oob(d_b, "d_b", iter)
  /\ \E f \in Outcomes({"collab"}) : Record(f)
  /\ StepRuns
  /\ pc' = "norm"
  /\ UNCHANGED <<inVars, iter, coeffVars, vecVars, dottemp, normtemp, gamma,
                 specVars, triVars, h_H_eigen, outVars, oobWrites,
                 prevOrdered, tq_out>>
  /\ UNCHANGED kernVars
  /\ UNCHANGED idxVars

\* lines 388-415: d_b[iter+1] = sqrt(norm of v2), gamma = 1/d_b[iter+1],
\* y = y + gamma*v2, basis slot iter-1 = v0, v0 = v1, v1 = v2 (a plain copy),
\* d_diag[iter] = Re d_a[iter], d_offdia[iter+1] = Re d_b[iter+1]
RoundNorm ==
  /\ pc = "norm"
  /\ \E f \in Outcomes({"collab"}) :
       /\ Record(f)
       /\ \E nt \in NormResult(f, iter) :
            /\ normtemp' = nt
            /\ d_b' = Store(d_b, BetaSlot(iter), ISqrt(nt))
            /\ \E b \in Load(d_b', iter + 1, BetaVals) :
                 /\ gamma' = <<1, b>>
                 /\ y' = Append(y, v2)
                 /\ d_offdia' = Store(d_offdia, iter + 1, ToFix(b))
  /\ d_lanczvec' = Store(d_lanczvec, iter - 1, v0)
  /\ v0' = v1
  /\ v1' = v2
  /\ v1_scale' = <<1, 1>>
  /\ \E a \in Load(d_a, iter, DotVals) : d_diag' = Store(d_diag, iter, ToFix(a))
  /\ oobWrites' = oobWrites \cup Oob(d_b, "d_b", BetaSlot(iter))
                     \cup Oob(d_offdia, "d_offdia", iter + 1)
                     \cup Oob(d_diag, "d_diag", iter)
                     \cup Oob(d_lanczvec, "d_lanczvec", iter - 1)
  /\ oobReads' = oobReads \cup Oob(d_b, "d_b", iter + 1) \cup Oob(d_a, "d_a", iter)
  /\ StepRuns
  /\ pc' = "solve"
  /\ UNCHANGED <<inVars, iter, d_a, v2, dottemp, axpytemp, cuDouble_temp, w,
                 specVars, h_diag, h_offdia, hostPtrsLive, h_H_eigen, outVars,
                 prevOrdered, tq_out>>
  /\ UNCHANGED kernVars
  /\ betaIdx' = betaIdx \cup {BetaSlot(iter)}
  /\ UNCHANGED alphaIdx

\* lines 421-432: d_H_eigen = cudaMalloc(max_Iter*max_Iter doubles),
\* zero(d_H_eigen, iter), unitdiag(d_H_eigen, iter), copied to h_H_eigen
EigenMatrix(cap, it) == UnitDiag(ZeroKernel(NewVec(cap * cap, Uninit), it), it)

\* lines 436-441: d_diag = h_diag sorted, its first num_Eig elements copied to
\* d_ordered, d_ordered_ptr moved, gs_Energy read through it
Extract(hd) ==
  /\ d_diag' = SortAsc(hd)
  /\ \E ord \in [0..(num_Eig - 1) -> FixVals] :
       /\ \A j \in 0..(num_Eig - 1) : ord[j] \in CopyChoices(d_diag', j)
       /\ d_ordered' = ord
  /\ d_ordered_ptr' = OrderedPtrAfterRound(num_Eig)
  /\ gs_Energy' = d_ordered'[d_ordered_ptr']
  /\ oobReads' = oobReads \cup Oob(hd, "d_diag", num_Eig - 1)

\* lines 418-445: the eigenvector matrix is allocated (a failure is printed)
\* and set up, h_diag = d_diag, h_offdia = d_offdia, tqli runs on the raw
\* pointers h_diag_ptr and h_offdia_ptr with n = iter+1, the spectrum is
\* extracted.  Once h_diag and h_offdia have been resized the raw pointers
\* name freed storage: what tqli writes does not reach h_diag, or the
\* process dies.
RoundSolve ==
  /\ pc = "solve"
  /\ h_H_eigen' = EigenMatrix(max_Iter, iter)
  /\ \E f \in Outcomes({"alloc"}) : Record(f)
  /\ StepRuns
  /\ \E eigs \in [0..iter -> EigVals] : \E r \in {0, TqliNoConvergence} :
     \E crash \in BOOLEAN :
       /\ crash => ~hostPtrsLive
       /\ tq_out' = eigs
       /\ returned' = r
       /\ IF crash
          THEN /\ pc' = "crashed"
               /\ UNCHANGED <<d_diag, h_diag, h_offdia, d_ordered, d_ordered_ptr,
                              gs_Energy, oobReads, oobWrites>>
          ELSE /\ pc' = "grow"
               /\ h_diag' = IF hostPtrsLive THEN TqliOut(d_diag, iter + 1, eigs)
                                            ELSE d_diag
               /\ h_offdia' = IF hostPtrsLive THEN NewVec(max_Iter, 0) ELSE d_offdia
               /\ oobWrites' = oobWrites \cup
                     (IF hostPtrsLive THEN Oob(d_diag, "h_diag", iter) ELSE {"freed"})
               /\ Extract(h_diag')
  /\ UNCHANGED <<inVars, iter, coeffVars, vecVars, tempVars, eigtemp, d_offdia,
                 hostPtrsLive, outVars, prevOrdered>>
  /\ UNCHANGED kernVars
  /\ UNCHANGED idxVars

\* lines 447-458: when iter == max_Iter - 1 every buffer is resized to
\* 2*max_Iter and max_Iter doubles; a resize that fails throws and ends the
\* process.  d_H_eigen is freed.
RoundGrow ==
  /\ pc = "grow"
  /\ IF GrowNow(iter, max_Iter)
     THEN \E f \in Outcomes({"alloc"}) :
            /\ Record(f)
            /\ IF f = "none"
               THEN /\ d_a' = Resize(d_a, GrownCap(max_Iter), 0)
                    /\ d_b' = Resize(d_b, GrownCap(max_Iter), 0)
                    /\ d_diag' = Resize(d_diag, GrownCap(max_Iter), 0)
                    /\ d_offdia' = Resize(d_offdia, GrownCap(max_Iter), 0)
                    /\ h_diag' = Resize(h_diag, GrownCap(max_Iter), 0)
                    /\ h_offdia' = Resize(h_offdia, GrownCap(max_Iter), 0)
                    /\ d_lanczvec' = Resize(d_lanczvec, GrownCap(max_Iter), ZeroVec)
                    /\ max_Iter' = GrownCap(max_Iter)
                    /\ hostPtrsLive' = FALSE
                    /\ pc' = "test"
               ELSE /\ pc' = "exit"
                    /\ UNCHANGED <<d_a, d_b, d_diag, d_offdia, h_diag, h_offdia,
                                   d_lanczvec, max_Iter, hostPtrsLive>>
     ELSE /\ pc' = "test"
          /\ UNCHANGED <<d_a, d_b, d_diag, d_offdia, h_diag, h_offdia,
                         d_lanczvec, max_Iter, hostPtrsLive, nFaults,
                         allocFailed, collabFailed>>
  /\ tq_out' = <<>>
  /\ UNCHANGED <<H_op, H_fits, num_Eig, conv_req, iter, vecVars, tempVars, specVars,
                 h_H_eigen, outVars, ranAfterAllocFail, ranAfterCollabFail,
                 oobWrites, oobReads, prevOrdered>>
  /\ UNCHANGED kernVars
  /\ UNCHANGED idxVars

\* lines 462-493: h_ordered = d_ordered is printed, h_lanczvec = d_lanczvec,
\* the handles are released
Finish ==
  /\ pc = "finish"
  /\ h_ordered' = d_ordered
  /\ h_lanczvec' = d_lanczvec
  /\ pc' = "done"
  /\ UNCHANGED <<inVars, iter, coeffVars, vecVars, tempVars, specVars, triVars,
                 h_H_eigen, faultVars, ghostVars>>
  /\ UNCHANGED kernVars
  /\ UNCHANGED idxVars

Next ==
  \/ Setup
  \/ AllocCoeff
  \/ AllocBasis
  \/ SeedAlpha
  \/ SeedBeta
  \/ AllocSpectrum
  \/ LoopTest
  \/ RoundMatvec
  \/ RoundOrtho
  \/ RoundNorm
  \/ RoundSolve
  \/ RoundGrow
  \/ Finish

Spec == Init /\ [][Next]_vars

\* lines 344-458 once more, for the rounds after round MaxRounds.  iter has
\* no bound in the code; past MaxRounds the model stops following iter and the
\* coefficient buffers and keeps what decides the loop: eigtemp takes the
\* previous k-th eigenvalue, the solver's output gives a new d_ordered, and
\* gs_Energy is read from it.
RoundBeyond ==
  /\ pc = "test"
  /\ iter = MaxRounds
  /\ ContinueLoop(gs_Energy, eigtemp, conv_req)
  /\ eigtemp' = d_ordered[d_ordered_ptr]
  /\ prevOrdered' = d_ordered
  /\ \E ord \in [0..(num_Eig - 1) -> EigVals] :
       /\ IsSorted(ord)
       /\ d_ordered' = ord
  /\ d_ordered_ptr' = OrderedPtrAfterRound(num_Eig)
  /\ gs_Energy' = d_ordered'[d_ordered_ptr']
  /\ UNCHANGED <<pc, inVars, iter, coeffVars, vecVars, tempVars, returned,
                 triVars, h_H_eigen, outVars, faultVars, oobWrites, oobReads,
                 tq_out>>
  /\ UNCHANGED kernVars
  /\ UNCHANGED idxVars

\* the calls with an operator that fits the vectors
InitLive == Init /\ H_fits

\* the runs in which no call fails, followed past round MaxRounds
NextLive ==
  /\ Next \/ RoundBeyond
  /\ nFaults' = nFaults

\* the host code runs to completion without waiting on anything: a step that
\* can be taken is taken
FairSpec == InitLive /\ [][NextLive]_vars /\ WF_vars(NextLive)

\* ------------------------------------------- the kernel vecdiff (part_000)

\* cuDoubleComplex values with integer parts, <<re, im>>
ComplexVals == {<<0, 0>>, <<1, 0>>, <<0, 1>>}

\* what the destination holds before the launch
OldW == <<7, 7>>

\* cuCsub and cuCmul of cuComplex.h
CSub(a, b) == <<a[1] - b[1], a[2] - b[2]>>
CMul(a, b) == <<a[1] * b[1] - a[2] * b[2], a[1] * b[2] + a[2] * b[1]>>

\* lines 57-64 of part_000: thread i, when i < n, stores
\* w[i] = cuCsub(x[i], cuCsub(cuCmul(alpha, y[i]), cuCmul(beta, z[i])))
VecDiff(wv, xv, al, yv, be, zv, n) ==
  [i \in DOMAIN wv |->
     IF i < n THEN CSub(xv[i], CSub(CMul(al, yv[i]), CMul(be, zv[i])))
              ELSE wv[i]]

\* vectors of MaxDim elements on the device, w apart from x, y and z
KernelInit ==
  /\ pc = "vecdiff"
  /\ H_op = [ae |-> 0, ao |-> 0, ne |-> 0, no |-> 0]
  /\ H_fits = TRUE
  /\ max_Iter = 1 /\ num_Eig = 1 /\ conv_req = 1
  /\ Fresh
  /\ vd_w = [i \in 0..(MaxDim - 1) |-> OldW]
  /\ vd_x \in [0..(MaxDim - 1) -> ComplexVals]
  /\ vd_y \in [0..(MaxDim - 1) -> ComplexVals]
  /\ vd_z \in [0..(MaxDim - 1) -> ComplexVals]
  /\ vd_alpha \in ComplexVals
  /\ vd_beta \in ComplexVals
  /\ vd_n \in 0..MaxDim

\* vecdiff<<<bpg,tpb>>>(w, x, alpha, y, beta, z, n) has run to its end
VecdiffLaunch ==
  /\ pc = "vecdiff"
  /\ vd_w' = VecDiff(vd_w, vd_x, vd_alpha, vd_y, vd_beta, vd_z, vd_n)
  /\ pc' = "vecdiff_done"
  /\ UNCHANGED <<vd_x, vd_alpha, vd_y, vd_beta, vd_z, vd_n>>
  /\ UNCHANGED <<inVars, iter, coeffVars, vecVars, tempVars, specVars, triVars,
                 h_H_eigen, outVars, faultVars, ghostVars>>
  /\ UNCHANGED idxVars

KernelNext == VecdiffLaunch

KernelSpec == KernelInit /\ [][KernelNext]_vars

\* ---------------------------------------------------------------- claims

CoeffBuffers == {"d_a", "d_b", "d_diag", "d_offdia", "d_lanczvec"}

\* C1: every index written into a capacity-bound buffer (d_a[iter],
\* d_b[iter+1], d_diag[iter], d_offdia[iter+1], basis slot iter-1) is smaller
\* than the capacity of that buffer at the moment of the write.
C1_WritesInBounds == oobWrites \cap CoeffBuffers = {}

\* C2: a growth of the capacity leaves every alpha computed so far
\* (0..iter), every beta computed so far (0..iter+1, the last one being
\* sqrt(normtemp) of this round) and every stored basis vector (0..iter-1) at
\* its index with its value (shown on runs in which no call failed).
C2_GrowthKeeps ==
  [][(pc = "grow" /\ pc' = "test" /\ max_Iter' # max_Iter /\ nFaults = 0) =>
       /\ \A j \in 0..iter : j \in DOMAIN d_a' /\ d_a'[j] = d_a[j]
       /\ \A j \in 0..iter : j \in DOMAIN d_b' /\ d_b'[j] = d_b[j]
       /\ (iter + 1) \in DOMAIN d_b' /\ d_b'[iter + 1] = ISqrt(normtemp)
       /\ \A j \in 0..(iter - 1) :
            j \in DOMAIN d_lanczvec' /\ d_lanczvec'[j] = d_lanczvec[j]]_vars

\* the difference between the k-th smallest eigenvalue of the round that just
\* ended and that of the round before it (the zero fill before round 1)
KthDelta == Abs(d_ordered[num_Eig - 1] - prevOrdered[num_Eig - 1])

\* the loop condition is evaluated at the end of a round
RoundBoundary == pc = "test" /\ iter >= 1 /\ pc' # pc

\* C3 (as amended): the outer loop stops after a round if and only if the
\* difference between the current k-th smallest eigenvalue and element k-1
\* of the previous round's spectrum is at most conv_req; a difference equal
\* to conv_req stops the loop.
C3_StopsIffWithinTolerance ==
  [][RoundBoundary => ((pc' = "finish") <=> (KthDelta <= conv_req))]_vars

\* C3 (as stated): the loop stops after a round if and only if the difference
\* is strictly smaller than conv_req.
C3_StopsIffStrictlyBelow ==
  [][RoundBoundary => ((pc' = "finish") <=> (KthDelta < conv_req))]_vars

\* a run that stopped after a round whose difference is exactly conv_req,
\* with more than one eigenvalue requested
C3_Witness ==
  /\ pc = "finish"
  /\ iter >= 2
  /\ num_Eig >= 2
  /\ KthDelta = conv_req
  /\ prevOrdered[0] # prevOrdered[num_Eig - 1]

\* C4: when a computed beta is zero (the norm of the residual is zero) the
\* run ends at that step: 1/beta is not formed and no further round runs
\* (shown on runs in which no call failed).
C4_BreakdownStops ==
  nFaults = 0 =>
    /\ ~(normtemp = 0 /\ gamma = <<1, 0>>)
    /\ (pc = "ortho" => normtemp # 0)

\* C5: every run of lanczos eventually ends: when the convergence test keeps
\* failing, the loop is stopped by a cap on the number of rounds.
C5_Terminates == <>(pc \in {"done", "exit", "crashed"})

\* C6: the sequence h_ordered that lanczos produces has exactly num_Eig
\* elements and is non-decreasing.
C6_SortedOfLengthK ==
  pc = "done" => (DOMAIN h_ordered = 0..(num_Eig - 1) /\ IsSorted(h_ordered))

\* C7: after a round the num_Eig values in d_ordered are the num_Eig smallest
\* of the iter+1 eigenvalues the solver returned, ascending (shown on runs in
\* which no call failed and no access left its buffer).
C7_SmallestOfSolverOutput ==
  (pc = "grow" /\ nFaults = 0 /\ oobWrites = {} /\ oobReads = {}) =>
    /\ num_Eig <= iter + 1
    /\ \A j \in 0..(num_Eig - 1) : d_ordered[j] = SortAsc(tq_out)[j]

\* C8: no value read during a run comes from storage the run has not
\* initialised: the eigenvector matrix copied to the host and handed to tqli
\* holds no uninitialised element.
C8_NoUninitialisedRead == \A i \in DOMAIN h_H_eigen : h_H_eigen[i] # Uninit

\* C9: after a failed allocation no further Lanczos step is executed.
C9_AllocFailureAborts == ~ranAfterAllocFail

\* C10: after a collaborator call reported a failure no later step runs and
\* no spectrum is reported.
C10_CollabFailureAborts == ~ranAfterCollabFail /\ (collabFailed => pc # "done")

\* C11: a run in which tqli returned its failure indication is not reported
\* in the way a successful converged run is: it does not end in the normal
\* completion of lanczos with nothing but the spectrum.
C11_SolverFailureFlagged ==
  (pc = "done" /\ iter >= 1 /\ nFaults = 0 /\ oobWrites = {} /\ oobReads = {}) =>
     returned # TqliNoConvergence

\* the steps that come before the first product H*v0 of line 198
BeforeFirstProduct == {"start", "alloc_coeff", "alloc_basis", "seed_alpha", "exit"}

\* C12: when the dimension of the operator disagrees with the length dim of
\* the vectors the call is rejected before any computation: no matrix-vector
\* product and no Lanczos step runs.
C12_MismatchRejected == ~H_fits => pc \in BeforeFirstProduct

\* C13: when the run ends the retained basis holds in slot j, for every j in
\* 0..iter-1, the vector that was the previous vector v0 of round j+1, and
\* the copy h_lanczvec made for the caller holds them (shown on runs in which
\* no call failed).
C13_BasisRetained ==
  (pc = "done" /\ nFaults = 0) =>
     \A j \in 0..(iter - 1) : j \in DOMAIN h_lanczvec /\ h_lanczvec[j] = j

\* C14: the buffers grow exactly in the round in which iter reaches
\* capacity - 2, the new capacity is 2*old + 1, every coefficient array and
\* the basis store get that same capacity before the next round starts, and
\* the capacity never decreases.
C14_GrowthPolicy ==
  [][(pc = "grow" /\ pc' = "test") =>
       /\ (max_Iter' # max_Iter) <=> (iter = max_Iter - 2)
       /\ (max_Iter' # max_Iter) => (max_Iter' = 2 * max_Iter + 1)
       /\ DOMAIN d_a' = 0..(max_Iter' - 1)
       /\ DOMAIN d_b' = 0..(max_Iter' - 1)
       /\ DOMAIN d_lanczvec' = 0..(max_Iter' - 1)
       /\ max_Iter' >= max_Iter]_vars

\* the quotient q = <<numerator, denominator>> is defined and has the value x
QuotientIs(q, x) == q[2] # 0 /\ q[1] = x * q[2]

\* C15: in every round the residual after the orthogonalisation step is
\* H*v_i - alpha_i*v_i - beta_i*v_{i-1}: the product of the current vector
\* with the coefficients -alpha_i on v_i and -beta_i on v_{i-1}, also when
\* alpha_i is 0 (shown on runs in which no call failed and no access left
\* its buffer).
C15_ResidualSubtractsBoth ==
  (pc = "norm" /\ nFaults = 0 /\ oobWrites = {} /\ oobReads = {}) =>
     /\ w.hv = v1
     /\ QuotientIs(w.c1, 0 - d_a[iter])
     /\ QuotientIs(w.c0, 0 - d_b[iter])

\* C16: vecdiff stores w[i] = x[i] - a*y[i] - b*z[i] for every i < n, stores
\* nothing at an index i >= n, and leaves x, y and z as they were when w is
\* none of them.
C16_VecdiffSubtractsBoth ==
  [][pc = "vecdiff" =>
       /\ \A i \in DOMAIN vd_w :
             vd_w'[i] = IF i < vd_n
                        THEN CSub(CSub(vd_x[i], CMul(vd_alpha, vd_y[i])),
                                  CMul(vd_beta, vd_z[i]))
                        ELSE vd_w[i]
       /\ vd_x' = vd_x /\ vd_y' = vd_y /\ vd_z' = vd_z]_vars

\* C17: the off-diagonal coefficient stored by a step, the seeding step
\* included, is the value the norm collaborator returned for the residual,
\* with no further function applied to it (shown on runs in which no call
\* failed).
C17_BetaIsTheNorm ==
  (pc \in {"alloc_spectrum", "solve"} /\ nFaults = 0 /\ (iter + 1) \in DOMAIN d_b) =>
     d_b[iter + 1] = normtemp

\* C18: when the beta a step stored is not zero, the vector that is v1 when
\* the next round starts is the residual of the step multiplied by 1/beta;
\* the same holds after the seeding step (shown on runs in which no call
\* failed).
C18_NextVectorNormalised ==
  (/\ pc \in {"alloc_spectrum", "solve"}
   /\ nFaults = 0
   /\ (iter + 1) \in DOMAIN d_b
   /\ d_b[iter + 1] # 0) =>
     (v1 = iter + 1 /\ v1_scale[1] * d_b[iter + 1] = v1_scale[2])

\* C19: the matrix of order iter+1 handed to tqli in a round has the diagonal
\* d[j] = Re alpha_j for j in 0..iter and the off-diagonal e[j] = beta_j for
\* j in 1..iter, the coefficients of the recurrence; nothing the solver left
\* in an earlier round is part of it (shown on runs in which no call failed
\* and no access left its buffer).
C19_SolverGetsRecurrence ==
  (pc = "solve" /\ nFaults = 0 /\ oobWrites = {} /\ oobReads = {}) =>
     /\ \A j \in 0..iter : d_diag[j] = ToFix(d_a[j])
     /\ \A j \in 1..iter : d_offdia[j] = ToFix(d_b[j])

\* C20: at every round boundary as many alphas as betas have been computed,
\* and their number is the number of steps done so far, the seeding step
\* being the first one (iter + 1); d_b[0] is 0 from its initialisation on
\* and no computed beta is ever stored there.
C20_CoefficientCounts ==
  /\ pc = "test" =>
       /\ Cardinality(alphaIdx) = iter + 1
       /\ Cardinality(betaIdx) = iter + 1
  /\ 0 \notin betaIdx
  /\ d_b # <<>> => d_b[0] = 0

\* a round boundary after two rounds, three alphas and three betas computed
C20_Witness ==
  /\ pc = "test"
  /\ iter = 2
  /\ alphaIdx = {0, 1, 2}
  /\ betaIdx = {1, 2, 3}
  /\ nFaults = 0

\* the first n*n doubles of a, read as n rows of n, are the identity matrix
IsIdentity(a, n) ==
  \A r \in 0..(n - 1) : \A c \in 0..(n - 1) :
     /\ (r * n + c) \in DOMAIN a
     /\ a[r * n + c] = IF r = c THEN Scale ELSE 0

\* C21: the eigenvector accumulator handed to tqli with order n = iter+1
\* holds the n-by-n identity matrix: 1 on the diagonal of the block and 0
\* everywhere else in it (shown on runs in which no call failed, in the
\* rounds whose block fits into the max_Iter*max_Iter doubles allocated).
C21_AccumulatorIsIdentity ==
  (pc = "grow" /\ nFaults = 0 /\ iter + 1 <= max_Iter) =>
     IsIdentity(h_H_eigen, iter + 1)

\* C22: when the outer loop exits, both values of the test that ended it
\* came from the solver, in two consecutive rounds: the run has executed at
\* least two rounds (shown on runs in which no call failed).
C22_TwoRoundsBeforeExit ==
  (pc = "finish" /\ nFaults = 0) => iter >= 2

====
